---- MODULE Spec2Model ----
(***************************************************************************)
(* State-machine model of backend/main.py: the one-shot upload handler     *)
(* transcribe_audio and the streaming handler websocket_endpoint, run as   *)
(* tasks of one cooperative event loop over a shared temporary directory.  *)
(* Byte buffers are represented by their length, texts by sequences of     *)
(* characters, paths by <<prefix, id, extension>>.                         *)
(***************************************************************************)
EXTENDS Integers, Sequences, FiniteSets, TLC

\* ---------------------------------------------------------------- bounds
MaxIds == 2         \* uuid4 values drawn: chunk steps plus one-shot requests
MaxLeaks == 1       \* os.remove calls that raise
MaxBuf == 3         \* bytes in a buffer handed to the frame assembly

Sessions == {"s1", "s2"}
Requests == {"r1"}
Tasks == Sessions \cup Requests
NoTask == "none"

ChunkLens == {954, 955}              \* len(data) of a received chunk
UploadLens == {0, 2}                 \* len(content) of an upload
Diagnostics == {"diag"}              \* result.stderr values
Bytes == {0, 1, 255}                 \* byte values of a buffer

\* ------------------------------------------------------- pure functions
Whitespace == {" "}

RECURSIVE LStrip(_)
LStrip(t) ==
    IF t = <<>> THEN <<>>
    ELSE IF Head(t) \in Whitespace THEN LStrip(Tail(t)) ELSE t

RECURSIVE RStrip(_)
RStrip(t) ==
    IF t = <<>> THEN <<>>
    ELSE IF t[Len(t)] \in Whitespace THEN RStrip(SubSeq(t, 1, Len(t) - 1)) ELSE t

\* str.strip()
Strip(t) == RStrip(LStrip(t))

\* variant: "".join(...)
RECURSIVE JoinAlt(_)
JoinAlt(segs) ==
    IF segs = <<>> THEN <<>> ELSE segs[1] \o JoinAlt(Tail(segs))

\* " ".join(segment.text for segment in segments)
RECURSIVE Join(_)
Join(segs) ==
    IF segs = <<>> THEN <<>>
    ELSE IF Len(segs) = 1 THEN segs[1]
    ELSE segs[1] \o <<" ">> \o Join(Tail(segs))

\* what model.transcribe can yield: sequences of segment.text values
ModelOutputs == { <<>>, << <<" ">> >>, << <<" ", "a">> >>, << <<" ", "a">>, <<"b">> >> }

\* variant: the length is used as received
PadLenAlt(n) == n
\* if len(data) % 2 != 0: data += b'\0'
PadLen(n) == IF n % 2 # 0 THEN n + 1 ELSE n

WavHeaderLen == 44
\* size of the file wave.open(...).writeframes(...) leaves behind
WavSize(n) == WavHeaderLen + PadLen(n)

MinWavSize == 1000
\* variant: the threshold itself is rejected
QualityGateAlt(size) == size > MinWavSize
\* not (os.path.getsize(wav_file) < 1000)
QualityGate(size) == ~(size < MinWavSize)

\* variant: every chunk gets the same name
TempFileAlt(id) == <<"temp_ws", 1, "raw">>
\* temp_ws_{uuid}.raw and its .replace(".raw", ".wav")
TempFile(id) == <<"temp_ws", id, "raw">>
WavFile(p) == <<p[1], p[2], "wav">>
NoPath == <<"none", 0, "none">>

\* variant: the .wav path is left out of the removal loop
RemoveIfExistsAlt(f, p, ok) ==
    IF p \in DOMAIN f /\ ok /\ p[3] # "wav" THEN [q \in DOMAIN f \ {p} |-> f[q]] ELSE f
\* the for-loop of the finally blocks, one path; ok = os.remove succeeds
RemoveIfExists(f, p, ok) ==
    IF p \in DOMAIN f /\ ok THEN [q \in DOMAIN f \ {p} |-> f[q]] ELSE f

\* os.remove(path) was called and raised
RemoveRaises(f, p, ok) == p \in DOMAIN f /\ ~ok

WriteFile(f, p, n) == [q \in DOMAIN f \cup {p} |-> IF q = p THEN n ELSE f[q]]

\* variant: the send is left running while the loop receives again
AwaitingChunkDuringSend(p) == p \in {"recv", "send"}
\* variant: the except clauses sit inside the while loop
AwaitingChunkAlt(p) == p \in {"recv", "closed"}
\* while True: data = await websocket.receive_bytes() -- the loop is left
\* for good by the outer except clauses
AwaitingChunk(p) == p = "recv"

\* variant: the text overtakes the ones sent before
SendTextAlt(q, t) == <<t>> \o q
\* await websocket.send_text(text) returned: the peer's stream grows by text
SendText(q, t) == Append(q, t)

\* variant: the exception of a failed send reaches the outer except clauses
AfterFaultSendAlt(kind) == IF kind = "send" THEN "closed" ELSE "cleanup"
\* variant: a model fault is not caught by the inner try
AfterFaultAlt(kind) == IF kind = "model" THEN "closed" ELSE "cleanup"
\* except Exception as process_error: print, fall into finally, loop on
AfterFault(kind) == "cleanup"

\* variant: the exception of os.remove is not caught
AfterCleanupAlt(raised) == IF raised THEN "closed" ELSE "recv"
\* except: print(...) around os.remove, end of the finally block, loop on
AfterCleanup(raised) == "recv"

\* ------------------------------------------------------------- the state
VARIABLES
    pc,         \* position of every task
    running,    \* task holding the event loop between two awaits
    fs,         \* temporary directory: existing path |-> size in bytes
    nextId,     \* supply of fresh uuid4 values
    owner,      \* owner[id]: the task that drew uuid4 value id
        data,       \* session: len(data)
    temp_file,  \* session: temp_file
    wav_file,   \* session: wav_file
    text,       \* session: text
    sent,       \* session: texts delivered by websocket.send_text
    cur,        \* session: what the chunk step in progress has done so far
    hist,       \* session: cur and text of every completed chunk step
    leaked,     \* paths whose os.remove raised
    input_path, \* request: input_path
    audio_path, \* request: audio_path
    content,    \* request: len(content), NoContent before file.read() returns
    result,     \* request: result.returncode and result.stderr
    resp,       \* request: the value returned to the framework
    rq,         \* request: what the request has done so far
    fa          \* frame assembly of one buffer, byte by byte

svars == <<data, temp_file, wav_file, text, sent, cur, hist>>
rvars == <<input_path, audio_path, content, result, resp, rq>>
tvars == <<pc, running, fs, nextId, owner, leaked, svars, rvars>>
vars == <<tvars, fa>>

NoContent == -1
NoResult == [returncode |-> 0, stderr |-> "none"]
NoResp == [key |-> "none", val |-> <<>>, tail |-> 0]
NoRq == [transcodes |-> 0, calls |-> 0, fault |-> "none", segs |-> <<>>]
\* no buffer is being assembled
FaIdle == [pc |-> "idle", B |-> <<>>, data |-> <<>>, audio |-> <<>>, payload |-> <<>>]
NoCur == [gate |-> "none", size |-> 0, calls |-> 0, sends |-> 0, fault |-> "none"]

InitTasks ==
    /\ pc = [t \in Tasks |-> IF t \in Sessions THEN "recv" ELSE "start"]
    /\ running = NoTask
    /\ fs = <<>>
    /\ nextId = 1
    /\ owner = <<>>
    /\ data = [s \in Sessions |-> 0]
    /\ temp_file = [s \in Sessions |-> NoPath]
    /\ wav_file = [s \in Sessions |-> NoPath]
    /\ text = [s \in Sessions |-> <<>>]
    /\ sent = [s \in Sessions |-> <<>>]
    /\ cur = [s \in Sessions |-> NoCur]
    /\ hist = [s \in Sessions |-> <<>>]
    /\ leaked = {}
    /\ input_path = [r \in Requests |-> NoPath]
    /\ audio_path = [r \in Requests |-> NoPath]
    /\ content = [r \in Requests |-> NoContent]
    /\ result = [r \in Requests |-> NoResult]
    /\ resp = [r \in Requests |-> NoResp]
    /\ rq = [r \in Requests |-> NoRq]

Init == InitTasks /\ fa = FaIdle

\* -------------------------------------------------- websocket_endpoint
\* (a session starts where websocket.accept() has returned and the loop is
\* about to suspend in its first receive_bytes)
\* data = await websocket.receive_bytes()
Receive(s) ==
    /\ AwaitingChunk(pc[s]) /\ running = NoTask
    /\ nextId <= MaxIds
    /\ \E n \in ChunkLens : data' = [data EXCEPT ![s] = n]
    /\ pc' = [pc EXCEPT ![s] = "name"]
    /\ running' = s
    /\ UNCHANGED <<fs, nextId, owner, temp_file, wav_file, text, sent, cur, hist, leaked, rvars, fa>>

\* receive_bytes raises WebSocketDisconnect: outer except, handler returns
Disconnect(s) ==
    /\ pc[s] = "recv" /\ running = NoTask
    /\ pc' = [pc EXCEPT ![s] = "closed"]
    /\ UNCHANGED <<running, fs, nextId, owner, data, temp_file, wav_file, text,
                   sent, cur, hist, leaked, rvars, fa>>

\* receive_bytes raises anything else: outer except Exception
RecvFault(s) ==
    /\ pc[s] = "recv" /\ running = NoTask
    /\ pc' = [pc EXCEPT ![s] = "closed"]
    /\ UNCHANGED <<running, fs, nextId, owner, data, temp_file, wav_file, text,
                   sent, cur, hist, leaked, rvars, fa>>

\* temp_file = f"temp_ws_{uuid.uuid4().hex}.raw"; wav_file = ...
NamePaths(s) ==
    /\ pc[s] = "name" /\ running = s
    /\ temp_file' = [temp_file EXCEPT ![s] = TempFile(nextId)]
    /\ wav_file' = [wav_file EXCEPT ![s] = WavFile(TempFile(nextId))]
    /\ nextId' = nextId + 1
    /\ owner' = Append(owner, s)
    /\ pc' = [pc EXCEPT ![s] = "write_raw"]
    /\ UNCHANGED <<running, fs, data, text, sent, cur, hist, leaked, rvars, fa>>

\* with open(temp_file, "wb") as f: f.write(data)
WriteRaw(s) ==
    /\ pc[s] = "write_raw" /\ running = s
    /\ \E out \in {"ok", "open_fails", "write_fails"} :
         /\ fs' = CASE out = "ok" -> WriteFile(fs, temp_file[s], data[s])
                    [] out = "open_fails" -> fs
                    [] out = "write_fails" -> WriteFile(fs, temp_file[s], 0)
         /\ pc' = [pc EXCEPT ![s] = IF out = "ok" THEN "write_wav" ELSE AfterFault("assembly")]
         /\ cur' = [cur EXCEPT ![s].fault = IF out = "ok" THEN "none" ELSE "assembly"]
    /\ UNCHANGED <<running, nextId, owner, data, temp_file, wav_file, text,
                   sent, hist, leaked, rvars, fa>>

\* pad, np.frombuffer, wave.open(wav_file, "wb") ... writeframes
WriteWav(s) ==
    /\ pc[s] = "write_wav" /\ running = s
    /\ data' = [data EXCEPT ![s] = PadLen(data[s])]
    /\ \E out \in {"ok", "open_fails", "write_fails"} :
         /\ fs' = CASE out = "ok" -> WriteFile(fs, wav_file[s], WavSize(data[s]))
                    [] out = "open_fails" -> fs
                    [] out = "write_fails" -> WriteFile(fs, wav_file[s], 0)
         /\ pc' = [pc EXCEPT ![s] = IF out = "ok" THEN "gate" ELSE AfterFault("assembly")]
         /\ cur' = [cur EXCEPT ![s].fault = IF out = "ok" THEN "none" ELSE "assembly"]
    /\ UNCHANGED <<running, nextId, owner, temp_file, wav_file, text,
                   sent, hist, leaked, rvars, fa>>

\* if os.path.getsize(wav_file) < 1000: continue
Gate(s) ==
    /\ pc[s] = "gate" /\ running = s
    /\ LET size == fs[wav_file[s]]
       IN  /\ cur' = [cur EXCEPT ![s].size = size,
                                 ![s].gate = IF QualityGate(size) THEN "accept" ELSE "reject"]
           /\ pc' = [pc EXCEPT ![s] = IF QualityGate(size) THEN "model" ELSE "cleanup"]
    /\ UNCHANGED <<running, fs, nextId, owner, data, temp_file, wav_file, text,
                   sent, hist, leaked, rvars, fa>>

\* segments, _ = model.transcribe(wav_file); text = " ".join(...)
Transcribe(s) ==
    /\ pc[s] = "model" /\ running = s
    /\ \E segs \in ModelOutputs :
         /\ text' = [text EXCEPT ![s] = Join(segs)]
         /\ cur' = [cur EXCEPT ![s].calls = @ + 1]
         /\ pc' = [pc EXCEPT ![s] = "sink"]
    /\ UNCHANGED <<running, fs, nextId, owner, data, temp_file, wav_file,
                   sent, hist, leaked, rvars, fa>>

\* model.transcribe or the iteration over segments raises
TranscribeFail(s) ==
    /\ pc[s] = "model" /\ running = s
    /\ cur' = [cur EXCEPT ![s].calls = @ + 1, ![s].fault = "model"]
    /\ pc' = [pc EXCEPT ![s] = AfterFault("model")]
    /\ UNCHANGED <<running, fs, nextId, owner, data, temp_file, wav_file, text,
                   sent, hist, leaked, rvars, fa>>

\* variant: if text:
SinkAcceptsAlt(t) == t # <<>>
\* if text.strip():
SinkAccepts(t) == Strip(t) # <<>>

\* if text.strip(): await websocket.send_text(text)   (suspends in the send)
Sink(s) ==
    /\ pc[s] = "sink" /\ running = s
    /\ IF SinkAccepts(text[s])
       THEN /\ pc' = [pc EXCEPT ![s] = "send"]
            /\ running' = NoTask
       ELSE /\ pc' = [pc EXCEPT ![s] = "cleanup"]
            /\ UNCHANGED running
    /\ UNCHANGED <<fs, nextId, owner, data, temp_file, wav_file, text, sent, cur, hist, leaked, rvars, fa>>

\* send_text returns
SendOk(s) ==
    /\ pc[s] = "send" /\ running = NoTask
    /\ sent' = [sent EXCEPT ![s] = SendText(@, text[s])]
    /\ cur' = [cur EXCEPT ![s].sends = @ + 1]
    /\ pc' = [pc EXCEPT ![s] = "cleanup"]
    /\ running' = s
    /\ UNCHANGED <<fs, nextId, owner, data, temp_file, wav_file, text, hist, leaked, rvars, fa>>

\* send_text raises (WebSocketDisconnect or RuntimeError): inner except Exception
SendFail(s) ==
    /\ pc[s] = "send" /\ running = NoTask
    /\ cur' = [cur EXCEPT ![s].fault = "send"]
    /\ pc' = [pc EXCEPT ![s] = AfterFault("send")]
    /\ running' = s
    /\ UNCHANGED <<fs, nextId, owner, data, temp_file, wav_file, text, sent, hist, leaked, rvars, fa>>

\* finally: for path in [temp_file, wav_file]: remove if it exists; then the
\* loop suspends in receive_bytes again.  The locals of the iteration are dead
\* from here on (the next iteration assigns each before reading it) and take
\* their initial values again.
Cleanup(s) ==
    /\ pc[s] = "cleanup" /\ running = s
    /\ \E ok1, ok2 \in BOOLEAN :
         LET f1 == RemoveIfExists(fs, temp_file[s], ok1)
         IN  /\ fs' = RemoveIfExists(f1, wav_file[s], ok2)
             /\ leaked' = leaked
                    \cup (IF RemoveRaises(fs, temp_file[s], ok1) THEN {temp_file[s]} ELSE {})
                    \cup (IF RemoveRaises(f1, wav_file[s], ok2) THEN {wav_file[s]} ELSE {})
             /\ Cardinality(leaked') <= MaxLeaks
    /\ hist' = [hist EXCEPT ![s] = Append(@, [gate |-> cur[s].gate, fault |-> cur[s].fault,
                                              calls |-> cur[s].calls, sends |-> cur[s].sends,
                                              text |-> text[s]])]
    /\ data' = [data EXCEPT ![s] = 0]
    /\ temp_file' = [temp_file EXCEPT ![s] = NoPath]
    /\ wav_file' = [wav_file EXCEPT ![s] = NoPath]
    /\ text' = [text EXCEPT ![s] = <<>>]
    /\ cur' = [cur EXCEPT ![s] = NoCur]
    /\ pc' = [pc EXCEPT ![s] = AfterCleanup(leaked' # leaked)]
    /\ running' = NoTask
    /\ UNCHANGED <<nextId, owner, sent, rvars, fa>>

SessionStep(s) ==
    \/ Receive(s) \/ Disconnect(s) \/ RecvFault(s)
    \/ NamePaths(s) \/ WriteRaw(s) \/ WriteWav(s) \/ Gate(s)
    \/ Transcribe(s) \/ TranscribeFail(s)
    \/ Sink(s) \/ SendOk(s) \/ SendFail(s) \/ Cleanup(s)

\* ----------------------------------------------------- transcribe_audio
\* temp_input_{file_id}.wav, temp_processed_{file_id}.wav
InputPath(id) == <<"temp_input", id, "wav">>
AudioPath(id) == <<"temp_processed", id, "wav">>

\* messages: str(e) of the exceptions, and the two literals of the source
\* ("FFmpeg 변환 실패", "파일 저장 실패"), as sequences of words
FFmpegFailed == <<"FFmpeg conversion failed">>
SaveFailed == <<"file save failed">>
ErrOpen == <<"open failed">>
ErrRead == <<"read failed">>
ErrWrite == <<"write failed">>
ErrSpawn == <<"ffmpeg not found">>
ErrModel == <<"model failed">>

\* variant: the exception leaves the handler, nothing is returned
ExceptResponseAlt(msg) == NoResp
\* except Exception as e: return {"error": str(e)}, 500
ExceptResponse(msg) == [key |-> "error", val |-> msg, tail |-> 500]

\* return {"error": "파일 저장 실패"}
SaveFailedResponse == [key |-> "error", val |-> SaveFailed, tail |-> 0]

\* return {"transcription": text}
TranscriptionResponse(t) == [key |-> "transcription", val |-> t, tail |-> 0]

\* file_id = uuid4; the two paths; open(input_path, "wb"); then the task
\* suspends in file.read()
StartRequest(r) ==
    /\ pc[r] = "start" /\ running = NoTask
    /\ nextId <= MaxIds
    /\ input_path' = [input_path EXCEPT ![r] = InputPath(nextId)]
    /\ audio_path' = [audio_path EXCEPT ![r] = AudioPath(nextId)]
    /\ nextId' = nextId + 1
    /\ owner' = Append(owner, r)
    /\ \/ /\ fs' = WriteFile(fs, InputPath(nextId), 0)
          /\ pc' = [pc EXCEPT ![r] = "read"]
          /\ UNCHANGED <<running, resp, rq>>
       \/ /\ resp' = [resp EXCEPT ![r] = ExceptResponse(ErrOpen)]
          /\ rq' = [rq EXCEPT ![r].fault = "save"]
          /\ pc' = [pc EXCEPT ![r] = "finally"]
          /\ running' = r
          /\ UNCHANGED fs
    /\ UNCHANGED <<leaked, svars, content, result, fa>>

\* content = await file.read()
ReadUpload(r) ==
    /\ pc[r] = "read" /\ running = NoTask
    /\ running' = r
    /\ \/ /\ \E n \in UploadLens : content' = [content EXCEPT ![r] = n]
          /\ pc' = [pc EXCEPT ![r] = "write"]
          /\ UNCHANGED <<resp, rq>>
       \/ /\ resp' = [resp EXCEPT ![r] = ExceptResponse(ErrRead)]
          /\ rq' = [rq EXCEPT ![r].fault = "save"]
          /\ pc' = [pc EXCEPT ![r] = "finally"]
          /\ UNCHANGED content
    /\ UNCHANGED <<fs, nextId, owner, leaked, svars, input_path, audio_path, result, fa>>

\* buffer.write(content), and the file is closed
WriteUpload(r) ==
    /\ pc[r] = "write" /\ running = r
    /\ \/ /\ fs' = WriteFile(fs, input_path[r], content[r])
          /\ pc' = [pc EXCEPT ![r] = "check"]
          /\ UNCHANGED <<resp, rq>>
       \/ /\ resp' = [resp EXCEPT ![r] = ExceptResponse(ErrWrite)]
          /\ rq' = [rq EXCEPT ![r].fault = "save"]
          /\ pc' = [pc EXCEPT ![r] = "finally"]
          /\ UNCHANGED fs
    /\ UNCHANGED <<running, nextId, owner, leaked, svars, input_path, audio_path, content, result, fa>>

\* if not os.path.exists(input_path): return {"error": ...}
UploadSaved(f, p) == p \in DOMAIN f

CheckSaved(r) ==
    /\ pc[r] = "check" /\ running = r
    /\ IF UploadSaved(fs, input_path[r])
       THEN /\ pc' = [pc EXCEPT ![r] = "ffmpeg"]
            /\ UNCHANGED <<resp, rq>>
       ELSE /\ resp' = [resp EXCEPT ![r] = SaveFailedResponse]
            /\ rq' = [rq EXCEPT ![r].fault = "save"]
            /\ pc' = [pc EXCEPT ![r] = "finally"]
    /\ UNCHANGED <<running, fs, nextId, owner, leaked, svars, input_path, audio_path, content, result, fa>>

\* result = subprocess.run([ffmpeg_path, ...]); returncode 0
TranscodeOk(r) ==
    /\ pc[r] = "ffmpeg" /\ running = r
    /\ \E d \in Diagnostics : result' = [result EXCEPT ![r] = [returncode |-> 0, stderr |-> d]]
    /\ fs' = WriteFile(fs, audio_path[r], WavHeaderLen)
    /\ rq' = [rq EXCEPT ![r].transcodes = @ + 1]
    /\ pc' = [pc EXCEPT ![r] = "model"]
    /\ UNCHANGED <<running, nextId, owner, leaked, svars, input_path, audio_path, content, resp, fa>>

\* returncode != 0: print(result.stderr); raise RuntimeError("FFmpeg 변환 실패")
\* (the tool may have left a partial audio_path behind)
TranscodeNonZero(r) ==
    /\ pc[r] = "ffmpeg" /\ running = r
    /\ \E d \in Diagnostics : result' = [result EXCEPT ![r] = [returncode |-> 1, stderr |-> d]]
    /\ \E partial \in BOOLEAN :
         fs' = IF partial THEN WriteFile(fs, audio_path[r], 0) ELSE fs
    /\ rq' = [rq EXCEPT ![r].transcodes = @ + 1, ![r].fault = "transcode"]
    /\ resp' = [resp EXCEPT ![r] = ExceptResponse(FFmpegFailed)]
    /\ pc' = [pc EXCEPT ![r] = "finally"]
    /\ UNCHANGED <<running, nextId, owner, leaked, svars, input_path, audio_path, content, fa>>

\* subprocess.run itself raises (the executable cannot be started)
TranscodeSpawnFail(r) ==
    /\ pc[r] = "ffmpeg" /\ running = r
    /\ rq' = [rq EXCEPT ![r].transcodes = @ + 1, ![r].fault = "transcode"]
    /\ resp' = [resp EXCEPT ![r] = ExceptResponse(ErrSpawn)]
    /\ pc' = [pc EXCEPT ![r] = "finally"]
    /\ UNCHANGED <<running, fs, nextId, owner, leaked, svars, input_path, audio_path, content, result, fa>>

\* segments, _ = model.transcribe(audio_path); text = " ".join(...); return
TranscribeReq(r) ==
    /\ pc[r] = "model" /\ running = r
    /\ \E segs \in ModelOutputs :
         /\ resp' = [resp EXCEPT ![r] = TranscriptionResponse(Join(segs))]
         /\ rq' = [rq EXCEPT ![r].calls = @ + 1, ![r].segs = segs]
    /\ pc' = [pc EXCEPT ![r] = "finally"]
    /\ UNCHANGED <<running, fs, nextId, owner, leaked, svars, input_path, audio_path, content, result, fa>>

\* model.transcribe or the iteration over segments raises
TranscribeReqFail(r) ==
    /\ pc[r] = "model" /\ running = r
    /\ resp' = [resp EXCEPT ![r] = ExceptResponse(ErrModel)]
    /\ rq' = [rq EXCEPT ![r].calls = @ + 1, ![r].fault = "model"]
    /\ pc' = [pc EXCEPT ![r] = "finally"]
    /\ UNCHANGED <<running, fs, nextId, owner, leaked, svars, input_path, audio_path, content, result, fa>>

\* finally: for path in [input_path, audio_path]: remove if it exists
Finally(r) ==
    /\ pc[r] = "finally" /\ running = r
    /\ \E ok1, ok2 \in BOOLEAN :
         LET f1 == RemoveIfExists(fs, input_path[r], ok1)
         IN  /\ fs' = RemoveIfExists(f1, audio_path[r], ok2)
             /\ leaked' = leaked
                    \cup (IF RemoveRaises(fs, input_path[r], ok1) THEN {input_path[r]} ELSE {})
                    \cup (IF RemoveRaises(f1, audio_path[r], ok2) THEN {audio_path[r]} ELSE {})
             /\ Cardinality(leaked') <= MaxLeaks
    /\ pc' = [pc EXCEPT ![r] = "return"]
    /\ UNCHANGED <<running, nextId, owner, svars, rvars, fa>>

\* the pending return completes: the value in resp goes to the framework and
\* the call's locals are gone
Return(r) ==
    /\ pc[r] = "return" /\ running = r
    /\ input_path' = [input_path EXCEPT ![r] = NoPath]
    /\ audio_path' = [audio_path EXCEPT ![r] = NoPath]
    /\ content' = [content EXCEPT ![r] = NoContent]
    /\ result' = [result EXCEPT ![r] = NoResult]
    /\ resp' = [resp EXCEPT ![r] = NoResp]
    /\ rq' = [rq EXCEPT ![r] = NoRq]
    /\ pc' = [pc EXCEPT ![r] = "done"]
    /\ running' = NoTask
    /\ UNCHANGED <<fs, nextId, owner, leaked, svars, fa>>

RequestStep(r) ==
    \/ StartRequest(r) \/ ReadUpload(r) \/ WriteUpload(r) \/ CheckSaved(r)
    \/ TranscodeOk(r) \/ TranscodeNonZero(r) \/ TranscodeSpawnFail(r)
    \/ TranscribeReq(r) \/ TranscribeReqFail(r) \/ Finally(r) \/ Return(r)

\* ------------------------------------------------------- frame assembly
\* lines 100-109 on the bytes of one buffer: pad, np.frombuffer(dtype=int16),
\* audio_data.tobytes() handed to writeframes

RECURSIVE SeqsUpTo(_, _)
SeqsUpTo(S, n) ==
    IF n = 0 THEN {<<>>}
    ELSE LET P == SeqsUpTo(S, n - 1)
         IN  P \cup {Append(q, x) : q \in {u \in P : Len(u) = n - 1}, x \in S}

Buffers == SeqsUpTo(Bytes, MaxBuf)

\* variant: the buffer is used as received
PadAlt(d) == d
\* if len(data) % 2 != 0: data += b'\0'
Pad(d) == IF Len(d) % 2 # 0 THEN Append(d, 0) ELSE d

\* np.frombuffer raises ValueError unless the size is a multiple of 2
FromBufferFits(d) == Len(d) % 2 = 0

ToInt16(u) == IF u >= 32768 THEN u - 65536 ELSE u
\* np.frombuffer(data, dtype=np.int16): little-endian signed samples
FromBuffer(d) == [i \in 1..(Len(d) \div 2) |-> ToInt16(d[2 * i - 1] + 256 * d[2 * i])]

ToUInt16(x) == IF x < 0 THEN x + 65536 ELSE x
\* audio_data.tobytes()
ToBytes(a) ==
    [k \in 1..(2 * Len(a)) |->
        LET u == ToUInt16(a[(k + 1) \div 2])
        IN  IF k % 2 = 1 THEN u % 256 ELSE u \div 256]

FramePad ==
    /\ fa.pc = "pad"
    /\ fa' = [fa EXCEPT !.data = Pad(fa.data), !.pc = "frombuffer"]
    /\ UNCHANGED tvars

FrameFromBuffer ==
    /\ fa.pc = "frombuffer"
    /\ fa' = IF FromBufferFits(fa.data)
             THEN [fa EXCEPT !.audio = FromBuffer(fa.data), !.pc = "writeframes"]
             ELSE [fa EXCEPT !.pc = "fault"]
    /\ UNCHANGED tvars

FrameWrite ==
    /\ fa.pc = "writeframes"
    /\ fa' = [fa EXCEPT !.payload = ToBytes(fa.audio), !.pc = "written"]
    /\ UNCHANGED tvars

InitFrame ==
    /\ InitTasks
    /\ \E b \in Buffers : fa = [FaIdle EXCEPT !.pc = "pad", !.B = b, !.data = b]

NextFrame == FramePad \/ FrameFromBuffer \/ FrameWrite

SpecFrame == InitFrame /\ [][NextFrame]_vars

Next ==
    \/ \E s \in Sessions : SessionStep(s)
    \/ \E r \in Requests : RequestStep(r)

Spec == Init /\ [][Next]_vars

\* the steps a handler takes by itself once a chunk or an upload is in: the
\* synchronous code between two awaits, and the resumption after an await
\* that has completed (the send either goes through or raises)
Proc(s) ==
    \/ NamePaths(s) \/ WriteRaw(s) \/ WriteWav(s) \/ Gate(s)
    \/ Transcribe(s) \/ TranscribeFail(s)
    \/ Sink(s) \/ SendOk(s) \/ SendFail(s) \/ Cleanup(s)
ProcReq(r) ==
    \/ ReadUpload(r) \/ WriteUpload(r) \/ CheckSaved(r)
    \/ TranscodeOk(r) \/ TranscodeNonZero(r) \/ TranscodeSpawnFail(r)
    \/ TranscribeReq(r) \/ TranscribeReqFail(r) \/ Finally(r) \/ Return(r)

\* calls return and the event loop runs every task that is ready; what the
\* peers do (a chunk, a disconnect, a new upload) is left free
SpecFair ==
    /\ Init /\ [][Next]_vars
    /\ \A s \in Sessions : SF_vars(Proc(s))
    /\ \A r \in Requests : WF_vars(ProcReq(r))
\* ------------------------------------------------------------ properties
\* a session is between two chunk steps, or has ended
Quiescent(s) == pc[s] \in {"recv", "closed"}
InStep(s) == pc[s] \in {"name", "write_raw", "write_wav", "gate", "model", "sink", "send", "cleanup"}

GateAccepted(e) == e.gate = "accept"
Yielded(e) == e.fault # "model" /\ Strip(e.text) # <<>>
Texts(h) == [i \in 1..Len(h) |-> h[i].text]
\* every chunk that passed the gate got a non-blank text from the model
AllYield(h) == \A i \in 1..Len(h) : GateAccepted(h[i]) => Yielded(h[i])
NoSendFault(h) == \A i \in 1..Len(h) : h[i].fault # "send"

ProcFault(k) == k \in {"assembly", "model"}
Normal(e) == e.gate = "accept" /\ e.fault = "none" /\ Strip(e.text) # <<>>

\* C2: a frame-assembly or model fault in a chunk step does not close the
\* session: the step sends nothing, goes through the cleanup back to the
\* receive, and the chunks after it are handled as usual (a chunk that passes
\* the gate and gets non-blank text is sent once).
C2_FaultKeepsSessionOpen ==
    /\ [](\A s \in Sessions :
            /\ ProcFault(cur[s].fault) => pc[s] = "cleanup" /\ cur[s].sends = 0
            /\ \A i \in 1..Len(hist[s]) :
                 /\ ProcFault(hist[s][i].fault) => hist[s][i].sends = 0
                 /\ Normal(hist[s][i]) => hist[s][i].sends = 1)
    /\ [][\A s \in Sessions :
            ProcFault(cur[s].fault) /\ pc'[s] # pc[s]
                => pc'[s] = "recv" /\ sent'[s] = sent[s]]_vars

C2_Witness ==
    \E s \in Sessions :
        /\ pc[s] = "recv" /\ Len(hist[s]) = 2
        /\ ProcFault(hist[s][1].fault)
        /\ Normal(hist[s][2]) /\ Len(sent[s]) = 1
\* the temporary files task t created that still exist
FilesOf(t) == {p \in DOMAIN fs : owner[p[2]] = t}

\* C3 as stated: whenever a chunk step has completed (the session awaits
\* the next chunk again), neither temporary file of the chunk exists.
C3_AsStated ==
    \A s \in Sessions : Quiescent(s) => FilesOf(s) = {}

\* C3 amended: whenever a chunk step has completed, a temporary file of
\* the session exists only if os.remove raised for it.
C3_FilesGoneUnlessRemoveRaised ==
    \A s \in Sessions : Quiescent(s) => FilesOf(s) \subseteq leaked

C3_Witness ==
    \E s \in Sessions :
        /\ pc[s] = "recv" /\ Len(hist[s]) = 2
        /\ hist[s][1].fault = "send" /\ hist[s][2].fault = "model"
        /\ FilesOf(s) = {}

\* C4 as stated: CLOSED is terminal -- a closed session receives, transcribes
\* and sends nothing more -- and none of its temporary files exists.
C4_AsStated ==
    /\ [](\A s \in Sessions : pc[s] = "closed" => cur[s] = NoCur /\ FilesOf(s) = {})
    /\ [][\A s \in Sessions :
            pc[s] = "closed"
                => /\ pc'[s] = "closed" /\ cur'[s] = cur[s]
                   /\ hist'[s] = hist[s] /\ sent'[s] = sent[s]]_vars

\* C4 amended: CLOSED is entered from the receive only and is terminal -- a
\* closed session receives, transcribes and sends nothing more -- and the
\* only temporary files of the session that exist are those whose os.remove
\* raised.
C4_ClosedIsTerminal ==
    /\ [](\A s \in Sessions : pc[s] = "closed" => cur[s] = NoCur /\ FilesOf(s) \subseteq leaked)
    /\ [][\A s \in Sessions :
            /\ pc[s] = "closed"
                => /\ pc'[s] = "closed" /\ cur'[s] = cur[s]
                   /\ hist'[s] = hist[s] /\ sent'[s] = sent[s]
                   /\ FilesOf(s)' = FilesOf(s)
            /\ pc[s] # "closed" /\ pc'[s] = "closed" => pc[s] = "recv"]_vars

C4_Witness ==
    \E s \in Sessions :
        /\ pc[s] = "closed" /\ Len(hist[s]) = 1 /\ FilesOf(s) # {}
        /\ nextId <= MaxIds
        /\ \E t \in Sessions \ {s} : Len(hist[t]) = 0 /\ InStep(t)

\* C5: the gate accepts a WAV file iff its size is >= 1000 bytes (999
\* rejects, 1000 accepts); after a rejection the model is not called, nothing
\* is sent and the step goes through the cleanup back to the receive; after
\* an acceptance the model is called exactly once.
C5_QualityGate ==
    /\ [](/\ ~QualityGate(999) /\ QualityGate(1000)
          /\ \A s \in Sessions :
               /\ cur[s].gate = "accept" => cur[s].size >= 1000
               /\ cur[s].gate = "reject" =>
                    /\ cur[s].size < 1000 /\ pc[s] = "cleanup"
                    /\ cur[s].calls = 0 /\ cur[s].sends = 0
               /\ cur[s].gate = "accept" =>
                    cur[s].calls = (IF pc[s] = "model" THEN 0 ELSE 1)
               /\ \A i \in 1..Len(hist[s]) :
                    /\ hist[s][i].gate = "reject" =>
                         hist[s][i].calls = 0 /\ hist[s][i].sends = 0
                    /\ hist[s][i].gate = "accept" => hist[s][i].calls = 1
                    /\ hist[s][i].gate = "none" => hist[s][i].calls = 0)
    /\ [][\A s \in Sessions :
            cur[s].gate = "reject" /\ pc'[s] # pc[s]
                => pc'[s] = "recv" /\ sent'[s] = sent[s]]_vars

C5_Witness ==
    \E s \in Sessions :
        /\ Len(hist[s]) = 1 /\ hist[s][1].gate = "reject"
        /\ cur[s].gate = "accept" /\ cur[s].size = 1000 /\ cur[s].calls = 1

\* C6: a one-shot request whose upload is empty is answered with the
\* upload error, and neither the transcoder nor the model is invoked.
C6_AsStated ==
    \A r \in Requests :
        content[r] = 0 =>
            /\ rq[r].transcodes = 0 /\ rq[r].calls = 0
            /\ pc[r] = "finally" => resp[r].key = "error" /\ resp[r].val = SaveFailed

Contains(q, w) == \E i \in 1..Len(q) : q[i] = w

\* C7: when the transcoder exits with non-zero status the response is an
\* error that contains the transcoder's stderr text, and the model is not
\* invoked.
C7_AsStated ==
    \A r \in Requests :
        pc[r] = "finally" /\ result[r].returncode # 0 =>
            /\ resp[r].key = "error" /\ Contains(resp[r].val, result[r].stderr)
            /\ rq[r].calls = 0

\* the error descriptions each stage can produce
Describes(stage) ==
    CASE stage = "save" -> {ErrOpen, ErrRead, ErrWrite, SaveFailed}
      [] stage = "transcode" -> {FFmpegFailed, ErrSpawn}
      [] stage = "model" -> {ErrModel}

\* C8: a failure at any stage of a one-shot request does not leave the
\* handler: the request is at its return with a response, the response is
\* an error payload describing that stage's failure, and it has no
\* transcription field.
C8_FailureBecomesErrorResponse ==
    \A r \in Requests :
        /\ pc[r] \in {"finally", "return"} => resp[r].key \in {"error", "transcription"}
        /\ rq[r].fault # "none" =>
             /\ pc[r] \in {"finally", "return"}
             /\ resp[r].key = "error" /\ resp[r].key # "transcription"
             /\ resp[r].val \in Describes(rq[r].fault)
        /\ resp[r].key = "transcription" => rq[r].fault = "none"

C8_Witness ==
    \E r \in Requests :
        /\ pc[r] = "finally" /\ rq[r].fault = "model"
        /\ rq[r].transcodes = 1 /\ rq[r].calls = 1
        /\ resp[r].key = "error"

\* C9 as stated: after a one-shot request has completed, neither its
\* input file nor its transcoded file exists.
C9_AsStated ==
    \A r \in Requests : pc[r] = "done" => FilesOf(r) = {}

\* C9 amended: after a one-shot request has completed, a temporary file
\* of the request exists only if os.remove raised for it.
C9_RequestFilesGoneUnlessRemoveRaised ==
    \A r \in Requests : pc[r] = "done" => FilesOf(r) \subseteq leaked

C9_Witness ==
    \E r \in Requests :
        /\ pc[r] = "done"
        /\ \E p \in FilesOf(r) : p[1] = "temp_processed" /\ FilesOf(r) = {p}

Blank(t) == Strip(t) = <<>>

\* C10: every text sent is non-empty after stripping whitespace, a chunk
\* gets at most one message, and a chunk whose joined text is empty or
\* whitespace-only gets none and leaves the session open.
C10_OnlyNonBlankTextSent ==
    /\ [](\A s \in Sessions :
            /\ \A i \in 1..Len(sent[s]) : Strip(sent[s][i]) # <<>>
            /\ cur[s].sends <= 1
            /\ Len(sent[s]) <= Len(hist[s]) + cur[s].sends
            /\ \A i \in 1..Len(hist[s]) :
                 /\ hist[s][i].sends <= 1
                 /\ Blank(hist[s][i].text) => hist[s][i].sends = 0)
    /\ [][\A s \in Sessions :
            pc[s] = "sink" /\ Blank(text[s]) /\ pc'[s] # pc[s]
                => pc'[s] = "cleanup" /\ sent'[s] = sent[s]]_vars

C10_Witness ==
    \E s \in Sessions :
        /\ pc[s] = "recv" /\ Len(hist[s]) = 2
        /\ hist[s][1].gate = "accept" /\ hist[s][1].fault = "none"
        /\ hist[s][1].text = <<" ">> /\ hist[s][1].sends = 0
        /\ hist[s][2].sends = 1 /\ Len(sent[s]) = 1
\* where segment i starts in the joined text, counted from 0
RECURSIVE Offset(_, _)
Offset(segs, i) ==
    IF i = 1 THEN 0 ELSE Offset(segs, i - 1) + Len(segs[i - 1]) + 1

\* t is the segment texts in order with exactly one space between neighbours
IsSpaceJoined(segs, t) ==
    /\ Len(t) = IF segs = <<>> THEN 0
                ELSE Offset(segs, Len(segs)) + Len(segs[Len(segs)])
    /\ \A i \in 1..Len(segs) :
         /\ \A j \in 1..Len(segs[i]) : t[Offset(segs, i) + j] = segs[i][j]
         /\ i < Len(segs) => t[Offset(segs, i + 1)] = " "

\* C11: a one-shot request in which saving, transcoder and model succeed
\* returns a transcription field holding the segment texts in model order
\* joined by single spaces, also when that text is empty or blank.
C11_SuccessReturnsJoinedSegments ==
    \A r \in Requests :
        pc[r] \in {"finally", "return"} /\ rq[r].fault = "none" =>
            /\ rq[r].transcodes = 1 /\ rq[r].calls = 1
            /\ resp[r].key = "transcription"
            /\ IsSpaceJoined(rq[r].segs, resp[r].val)

C11_Witness ==
    \E r \in Requests :
        /\ pc[r] = "return" /\ rq[r].fault = "none"
        /\ rq[r].segs = << <<" ", "a">>, <<"b">> >>
        /\ resp[r] = [key |-> "transcription", val |-> <<" ", "a", " ", "b">>, tail |-> 0]
\* C12: for every received buffer B the sample payload written is B when
\* len(B) is even and B followed by one zero byte when it is odd; its length
\* is even (the padded length the size computation uses) and the assembly
\* does not fail on an odd-length buffer.
C12_PayloadIsPaddedBuffer ==
    /\ fa.pc # "fault"
    /\ fa.pc = "written" =>
         /\ fa.payload = IF Len(fa.B) % 2 = 0 THEN fa.B ELSE fa.B \o <<0>>
         /\ Len(fa.payload) % 2 = 0
         /\ Len(fa.payload) = PadLen(Len(fa.B))

C12_Witness ==
    /\ fa.pc = "written" /\ fa.B = <<1, 0, 255>>
    /\ fa.payload = <<1, 0, 255, 0>> /\ fa.audio = <<1, 255>>
IdsOf(t) == {i \in 1..Len(owner) : owner[i] = t}
AfterName == {"write_raw", "write_wav", "gate", "model", "sink", "send", "cleanup"}

Locals(t) ==
    IF t \in Sessions THEN {temp_file[t], wav_file[t]} \ {NoPath}
    ELSE {input_path[t], audio_path[t]} \ {NoPath}

Changed(p) ==
    \/ (p \in DOMAIN fs) # (p \in DOMAIN fs')
    \/ p \in DOMAIN fs /\ p \in DOMAIN fs' /\ fs[p] # fs'[p]

\* C16: with fresh identifiers temporary files are exclusively owned: two
\* tasks never hold the same path, a task holds only paths made from an
\* identifier it drew itself, and a step creates, rewrites or removes only
\* files of the task taking the step.
C16_ExclusiveOwnership ==
    /\ [](\A t \in Tasks :
            /\ \A p \in Locals(t) : p[2] \in IdsOf(t)
            /\ \A u \in Tasks \ {t} : Locals(t) \cap Locals(u) = {})
    /\ [][\A t \in Tasks :
            pc'[t] # pc[t] =>
                \A p \in DOMAIN fs \cup DOMAIN fs' :
                    Changed(p) => p[2] \in IdsOf(t)']_vars

C16_Witness ==
    \E s \in Sessions : \E t \in Sessions \ {s} :
        /\ pc[s] = "send" /\ pc[t] = "gate"
        /\ {temp_file[s], wav_file[s], temp_file[t], wav_file[t]} \subseteq DOMAIN fs
        /\ Cardinality({temp_file[s], wav_file[s], temp_file[t], wav_file[t]}) = 4

\* C17: a failing os.remove is not escalated.  Streaming: the cleanup still
\* deals with the other file (removed, or its removal raised too), the
\* session goes back to the receive and later chunks are handled as usual.
\* One-shot: the response decided before the cleanup is the one returned.
C17_RemoveFailureNotEscalated ==
    /\ [](\A s \in Sessions : \A i \in 1..Len(hist[s]) :
            Normal(hist[s][i]) => hist[s][i].sends = 1)
    /\ [][/\ \A s \in Sessions :
               pc[s] = "cleanup" /\ pc'[s] # pc[s] =>
                   /\ pc'[s] = "recv"
                   /\ temp_file[s] \in leaked' \ leaked =>
                        wav_file[s] \notin DOMAIN fs' \/ wav_file[s] \in leaked'
          /\ \A r \in Requests :
               /\ pc[r] = "finally" /\ pc'[r] # pc[r] =>
                    pc'[r] = "return" /\ resp'[r] = resp[r]
               /\ pc[r] = "return" /\ pc'[r] # pc[r] => pc'[r] = "done"]_vars

C17_Witness ==
    \E s \in Sessions :
        /\ owner = <<s, s>> /\ Len(hist[s]) = 2 /\ pc[s] = "recv"
        /\ hist[s][1].gate = "accept"
        /\ TempFile(1) \in leaked /\ WavFile(TempFile(1)) \notin DOMAIN fs
        /\ hist[s][2].sends = 1

\* C18 as stated: after a failed send the chunk's temporary files are
\* removed and the session goes back to the receive; CLOSED is entered from
\* the receive only.
C18_AsStated ==
    [][\A s \in Sessions :
         /\ cur[s].fault = "send" /\ pc'[s] # pc[s] =>
              /\ pc'[s] = "recv"
              /\ temp_file[s] \notin DOMAIN fs' /\ wav_file[s] \notin DOMAIN fs'
         /\ pc[s] # "closed" /\ pc'[s] = "closed" => pc[s] = "recv"]_vars

\* C18 amended: after a failed send each temporary file of the chunk is
\* removed or is one whose os.remove raised, and the session goes back to
\* the receive; CLOSED is entered from the receive only.
C18_SendFailureIsPerChunk ==
    [][\A s \in Sessions :
         /\ cur[s].fault = "send" /\ pc'[s] # pc[s] =>
              /\ pc'[s] = "recv"
              /\ \A p \in {temp_file[s], wav_file[s]} :
                   p \notin DOMAIN fs' \/ p \in leaked'
         /\ pc[s] # "closed" /\ pc'[s] = "closed" => pc[s] = "recv"]_vars

C18_Witness ==
    \E s \in Sessions :
        /\ pc[s] = "closed" /\ Len(hist[s]) = 1
        /\ hist[s][1].fault = "send" /\ hist[s][1].sends = 0
        /\ sent[s] = <<>> /\ FilesOf(s) = {}

\* whether a chunk of n bytes gets past the size test
ReachesModel(n) == QualityGate(WavSize(n))
ProbeLens == 900..1010

\* C19: the gate measures the WAV file -- 44 header bytes plus the padded
\* payload -- so a chunk of n bytes reaches the model iff
\* n + (n mod 2) + 44 >= 1000, that is iff n >= 955 (954 skipped, 955
\* transcribed).
C19_ChunkLengthThreshold ==
    /\ \A n \in ProbeLens : ReachesModel(n) <=> n >= 955
    /\ \A s \in Sessions :
         cur[s].gate # "none" =>
             LET n == fs[temp_file[s]]
             IN  /\ cur[s].size = n + (n % 2) + 44
                 /\ cur[s].gate = "accept" <=> n + (n % 2) + 44 >= 1000
                 /\ cur[s].gate = "accept" <=> n >= 955
                 /\ pc[s] \in {"sink", "send"} => n >= 955

C19_Witness ==
    \E s \in Sessions :
        /\ Len(hist[s]) = 1 /\ hist[s][1].gate = "reject" /\ hist[s][1].calls = 0
        /\ pc[s] = "sink" /\ fs[temp_file[s]] = 955 /\ fs[wav_file[s]] = 1000
\* a task is inside a synchronous call that runs the transcoder or the model
InCall(t) == pc[t] \in {"model", "ffmpeg"}
\* a task is suspended at an await whose result is there to be taken
Ready(t) == pc[t] \in {"recv", "send", "read", "start"}

C15_AsStated ==
    \A t \in Tasks : \A u \in Tasks \ {t} :
        InCall(t) /\ Ready(u) =>
            ENABLED (IF u \in Sessions THEN SessionStep(u) ELSE RequestStep(u))
====
